---- MODULE Spec2Model ----
(***************************************************************************)
(* The deposit/withdraw ledger program of task4 (processor.rs and          *)
(* instruction.rs): Processor::process decodes one instruction and runs    *)
(* process_deposit or process_withdraw over the accounts the host hands    *)
(* in.  The host keeps the accounts between instructions and discards      *)
(* every write of an instruction that returns an error.                    *)
(*                                                                         *)
(* Scaling: a byte holds ByteBase values instead of 256, so a u64 (eight   *)
(* little-endian bytes) ranges over 0 .. ByteBase^8 - 1.  All widths       *)
(* (32-byte keys, 8-byte amounts, 40-byte records, 9-byte instructions)    *)
(* are the program's.                                                      *)
(*                                                                         *)
(* Two clients of the ledger are modelled beside it, each in its own       *)
(* variable and specification: task3's block subscription feeding a        *)
(* bounded channel (relay, SpecRelay) and task2's batch of transfers       *)
(* (batch, SpecBatch).                                                     *)
(***************************************************************************)
EXTENDS Integers, Sequences, FiniteSets, TLC

VARIABLES
    lamports,         \* raw native balance of every account
    data,             \* the record's data buffer (a byte sequence)
    progOwned,        \* deposit_account_info.owner == program_id
    min_balance,      \* Rent::get().minimum_balance(data_len) for the record
    last,             \* the last instruction: its inputs, result, state at return
    ledger,           \* history: the record's lamports and balance at the start,
                      \* and the sums credited and paid out since
    steps,            \* number of instructions submitted so far
    codec,            \* an instruction on the wire: as sent, its bytes, as decoded
    pair,             \* two instructions on disjoint accounts, run in both orders
    relay,            \* task3: the block subscription, its channel, the main loop
    batch             \* task2: the batch of transfers and its report

vars == <<lamports, data, progOwned, min_balance, last, ledger, steps, codec, pair,
          relay, batch>>

----------------------------------------------------------------------------
(* Bounds *)

ByteBase == 3
MaxSteps == 2
MaxCodecAmount == 40
\* task3: stream messages the server sends before the model stops looking,
\* and the capacity of the block channel (mpsc::channel(100), scaled)
MaxUpdates == 3
ChannelCapacity == 2
\* task2: the longest source and destination lists of a config
MaxSources == 2
MaxDestinations == 2

(* Program constants *)

PUBKEY_BYTES == 32
U64_BYTES == 8
TAG_DEPOSIT == 0
TAG_WITHDRAW == 1
DepositError_InsufficientFunds == 0
DepositError_IncorrectProgramId == 1
DepositError_InvalidInstructionData == 2
SystemError_ResultWithNegativeLamports == 1

----------------------------------------------------------------------------
(* Integers and bytes *)

RECURSIVE Pow(_, _)
Pow(b, n) == IF n = 0 THEN 1 ELSE b * Pow(b, n - 1)

U64Max == Pow(ByteBase, U64_BYTES) - 1

Min(a, b) == IF a < b THEN a ELSE b

Range(seq) == {seq[i] : i \in DOMAIN seq}

\* mutant: most significant byte first
to_be_bytes(n) ==
    [i \in 1 .. U64_BYTES |-> (n \div Pow(ByteBase, U64_BYTES - i)) % ByteBase]

\* u64::to_le_bytes: least significant byte first
to_le_bytes(n) == [i \in 1 .. U64_BYTES |-> (n \div Pow(ByteBase, i - 1)) % ByteBase]

RECURSIVE from_le_bytes(_)
from_le_bytes(b) ==
    IF Len(b) = 0 THEN 0 ELSE Head(b) + ByteBase * from_le_bytes(Tail(b))

----------------------------------------------------------------------------
(* Identities and accounts *)

KeyOf(b) == [i \in 1 .. PUBKEY_BYTES |-> b]

Wallets == {"A", "B"}
Record == "R"
Accounts == Wallets \cup {Record}

\* AccountInfo.key of the wallets; Pubkey::default() is the all-zero key
Key(a) == IF a = "A" THEN KeyOf(1) ELSE KeyOf(2)
ZeroKey == KeyOf(0)

----------------------------------------------------------------------------
(* Results *)

Err(kind) == [kind |-> kind, code |-> 0]
Ok == Err("Ok")
\* impl From<DepositError> for ProgramError: Custom(e as u32)
Custom(c) == [kind |-> "Custom", code |-> c]

InsufficientFunds == Custom(DepositError_InsufficientFunds)
IncorrectProgramId == Custom(DepositError_IncorrectProgramId)
InvalidInstructionData == Custom(DepositError_InvalidInstructionData)
MissingRequiredSignature == Err("MissingRequiredSignature")
InvalidAccountData == Err("InvalidAccountData")
NotEnoughAccountKeys == Err("NotEnoughAccountKeys")
BorshIoError == Err("BorshIoError")
ArithmeticOverflow == Err("ArithmeticOverflow")
Panic == Err("Panic")

\* what an instruction leaves at the point where it returns
Return(err, lam, dat) == [err |-> err, lamports |-> lam, data |-> dat]

----------------------------------------------------------------------------
(* Borsh codecs *)

\* DepositInstruction::try_to_vec: variant index, then the amount
DepositInstruction_serialize(tag, amount) == <<tag>> \o to_le_bytes(amount)

\* mutant: an unknown variant index is read as Withdraw
DepositInstruction_try_from_slice_lenient(bytes) ==
    IF Len(bytes) # 1 + U64_BYTES THEN [ok |-> FALSE, tag |-> 0, amount |-> 0]
    ELSE [ok |-> TRUE,
          tag |-> IF bytes[1] = TAG_DEPOSIT THEN TAG_DEPOSIT ELSE TAG_WITHDRAW,
          amount |-> from_le_bytes(Tail(bytes))]

\* DepositInstruction::try_from_slice: the whole slice must be one instruction
DepositInstruction_try_from_slice(bytes) ==
    IF Len(bytes) = 0 THEN [ok |-> FALSE, tag |-> 0, amount |-> 0]
    ELSE IF bytes[1] \notin {TAG_DEPOSIT, TAG_WITHDRAW}
        THEN [ok |-> FALSE, tag |-> 0, amount |-> 0]
    ELSE IF Len(bytes) # 1 + U64_BYTES THEN [ok |-> FALSE, tag |-> 0, amount |-> 0]
    ELSE [ok |-> TRUE, tag |-> bytes[1], amount |-> from_le_bytes(Tail(bytes))]

RECORD_BYTES == PUBKEY_BYTES + U64_BYTES

\* DepositAccount's BorshSerialize: owner, then balance little-endian
DepositAccount_serialize(acc) == acc.owner \o to_le_bytes(acc.balance)

\* DepositAccount::try_from_slice: too short, or bytes left over, is an error
DepositAccount_try_from_slice(buf) ==
    IF Len(buf) # RECORD_BYTES THEN [ok |-> FALSE, owner |-> ZeroKey, balance |-> 0]
    ELSE [ok |-> TRUE,
          owner |-> SubSeq(buf, 1, PUBKEY_BYTES),
          balance |-> from_le_bytes(SubSeq(buf, PUBKEY_BYTES + 1, RECORD_BYTES))]

\* acc.serialize(&mut *info.data.borrow_mut()): io::Write for &mut [u8] copies
\* what fits and fails with WriteZero when the buffer is too short
serialize_into(buf, acc) ==
    LET img == DepositAccount_serialize(acc)
        n == Min(Len(buf), Len(img))
    IN [ok |-> Len(buf) >= Len(img),
        data |-> SubSeq(img, 1, n) \o SubSeq(buf, n + 1, Len(buf))]

----------------------------------------------------------------------------
(* The system program's transfer, called through invoke_signed *)

\* mutant: the amount is debited and never credited
system_transfer_uncredited(lam, from, to, amount) ==
    IF lam[from] < amount
    THEN [err |-> Custom(SystemError_ResultWithNegativeLamports), lamports |-> lam]
    ELSE [err |-> Ok, lamports |-> [lam EXCEPT ![from] = @ - amount]]

system_transfer(lam, from, to, amount) ==
    IF lam[from] < amount
    THEN [err |-> Custom(SystemError_ResultWithNegativeLamports), lamports |-> lam]
    ELSE LET l1 == [lam EXCEPT ![from] = @ - amount] IN
         IF l1[to] + amount > U64Max
         THEN [err |-> ArithmeticOverflow, lamports |-> lam]
         ELSE [err |-> Ok, lamports |-> [l1 EXCEPT ![to] = @ + amount]]

----------------------------------------------------------------------------
(* Processor *)

\* the accounts of one instruction: the first account (funder or owner) and
\* whether it signed, the record, and for Withdraw a destination ("none"
\* when the account list stops after the record)

\* mutant: every Deposit records its funder as the owner
deposit_account_data_reowned(dat, first) ==
    IF Len(dat) > 0
    THEN [DepositAccount_try_from_slice(dat) EXCEPT !.owner = Key(first)]
    ELSE [ok |-> TRUE, owner |-> Key(first), balance |-> 0]

\* mutant: the stored balance is not read back
deposit_account_data_fresh(dat, first) ==
    IF Len(dat) > 0
    THEN [DepositAccount_try_from_slice(dat) EXCEPT !.balance = 0]
    ELSE [ok |-> TRUE, owner |-> Key(first), balance |-> 0]

\* the state process_deposit updates: the record's, or a new one when the
\* buffer is empty
deposit_account_data(dat, first) ==
    IF Len(dat) > 0
    THEN DepositAccount_try_from_slice(dat)
    ELSE [ok |-> TRUE, owner |-> Key(first), balance |-> 0]

\* mutant: balance = amount
add_assign_overwrite(balance, amount) == amount

\* balance += amount on a u64: wraps unless the build traps the overflow
add_assign(balance, amount) == (balance + amount) % (U64Max + 1)

process_deposit(lam, dat, owned, checks, first, signed, amount) ==
    IF ~owned THEN Return(IncorrectProgramId, lam, dat)
    ELSE IF ~signed THEN Return(MissingRequiredSignature, lam, dat)
    ELSE
    LET t == system_transfer(lam, first, Record, amount) IN
    IF t.err # Ok THEN Return(t.err, lam, dat)
    ELSE
    LET acc == deposit_account_data(dat, first) IN
    IF ~acc.ok THEN Return(BorshIoError, t.lamports, dat)
    ELSE IF acc.balance + amount > U64Max /\ checks THEN Return(Panic, t.lamports, dat)
    ELSE
    LET w == serialize_into(dat, [owner |-> acc.owner,
                                  balance |-> add_assign(acc.balance, amount)])
    IN
    IF ~w.ok THEN Return(BorshIoError, t.lamports, w.data)
    ELSE Return(Ok, t.lamports, w.data)

\* mutant: the owner comparison is left out
owner_is_authorized_any(acc, first) == TRUE

\* deposit_account_data.owner == *owner_info.key
owner_is_authorized(acc, first) == acc.owner = Key(first)

\* mutant: the balance comparison is left out
has_sufficient_funds_any(acc, amount) == TRUE

\* !(deposit_account_data.balance < amount)
has_sufficient_funds(acc, amount) == ~(acc.balance < amount)

\* mutant: the reserve is not subtracted
available_ignoring_reserve(lam, minbal) == [some |-> TRUE, value |-> lam[Record]]

\* lamports().checked_sub(min_balance)
available_for_withdrawal(lam, minbal) ==
    IF lam[Record] < minbal
    THEN [some |-> FALSE, value |-> 0]
    ELSE [some |-> TRUE, value |-> lam[Record] - minbal]

\* mutant: the lamports taken from the record are credited to one fixed
\* wallet, whichever destination the instruction names
move_lamports_fixed_payee(lam, dest, amount) ==
    LET l1 == [lam EXCEPT ![Record] = @ - amount] IN
    [l1 EXCEPT !["A"] = (@ + amount) % (U64Max + 1)]

\* mutant: the credit is computed from the destination's lamports as they
\* were before the debit
move_lamports_stale(lam, dest, amount) ==
    [lam EXCEPT ![Record] = @ - amount,
                ![dest] = (lam[dest] + amount) % (U64Max + 1)]

\* the two lamport updates, one after the other; the accounts may be the same
move_lamports(lam, dest, amount) ==
    LET l1 == [lam EXCEPT ![Record] = @ - amount] IN
    [l1 EXCEPT ![dest] = (@ + amount) % (U64Max + 1)]

process_withdraw(lam, dat, owned, checks, minbal, first, signed, dest, amount) ==
    IF dest = "none" THEN Return(NotEnoughAccountKeys, lam, dat)
    ELSE IF ~owned THEN Return(IncorrectProgramId, lam, dat)
    ELSE IF ~signed THEN Return(MissingRequiredSignature, lam, dat)
    ELSE
    LET acc == DepositAccount_try_from_slice(dat) IN
    IF ~acc.ok THEN Return(BorshIoError, lam, dat)
    ELSE IF ~owner_is_authorized(acc, first) THEN Return(InvalidAccountData, lam, dat)
    ELSE IF ~has_sufficient_funds(acc, amount) THEN Return(InsufficientFunds, lam, dat)
    ELSE
    LET avail == available_for_withdrawal(lam, minbal) IN
    IF ~avail.some THEN Return(InsufficientFunds, lam, dat)
    ELSE IF amount > avail.value THEN Return(InsufficientFunds, lam, dat)
    ELSE
    LET l1 == [lam EXCEPT ![Record] = @ - amount] IN
    IF l1[dest] + amount > U64Max /\ checks THEN Return(Panic, l1, dat)
    ELSE
    LET w == serialize_into(dat, [owner |-> acc.owner, balance |-> acc.balance - amount])
    IN
    IF ~w.ok THEN Return(BorshIoError, move_lamports(lam, dest, amount), w.data)
    ELSE Return(Ok, move_lamports(lam, dest, amount), w.data)

\* mutant: is_signer is never looked at
process_signature_ignored(lam, dat, owned, checks, minbal, first, signed, dest, bytes) ==
    LET ix == DepositInstruction_try_from_slice(bytes) IN
    IF ~ix.ok THEN Return(InvalidInstructionData, lam, dat)
    ELSE IF ix.tag = TAG_DEPOSIT
        THEN process_deposit(lam, dat, owned, checks, first, TRUE, ix.amount)
    ELSE process_withdraw(lam, dat, owned, checks, minbal, first, TRUE, dest, ix.amount)

\* mutant: the namespace check is made before the instruction is decoded
process_namespace_first(lam, dat, owned, checks, minbal, first, signed, dest, bytes) ==
    LET ix == DepositInstruction_try_from_slice(bytes) IN
    IF ~owned THEN Return(IncorrectProgramId, lam, dat)
    ELSE IF ~ix.ok THEN Return(InvalidInstructionData, lam, dat)
    ELSE IF ix.tag = TAG_DEPOSIT
        THEN process_deposit(lam, dat, owned, checks, first, signed, ix.amount)
    ELSE process_withdraw(lam, dat, owned, checks, minbal, first, signed, dest, ix.amount)

process(lam, dat, owned, checks, minbal, first, signed, dest, bytes) ==
    LET ix == DepositInstruction_try_from_slice(bytes) IN
    IF ~ix.ok THEN Return(InvalidInstructionData, lam, dat)
    ELSE IF ix.tag = TAG_DEPOSIT
        THEN process_deposit(lam, dat, owned, checks, first, signed, ix.amount)
    ELSE process_withdraw(lam, dat, owned, checks, minbal, first, signed, dest, ix.amount)

----------------------------------------------------------------------------
(* The host: it keeps the accounts, hands them to process, and keeps the    *)
(* writes of an instruction only when it returned Ok                        *)

Zeros(n) == [i \in 1 .. n |-> 0]

\* buffers a record can have before the program ever wrote to it: never
\* allocated, allocated (zero-filled) at the record width, or at another width
FreshBuffers == {<<>>, Zeros(RECORD_BYTES), Zeros(U64_BYTES), Zeros(RECORD_BYTES + 1)}

\* record images a host can hold for the account: a wallet as owner, a
\* balance already credited
HostImages ==
    {DepositAccount_serialize([owner |-> o, balance |-> b]) :
        o \in {Key("A"), Key("B")}, b \in {1, 3}}

Amounts == {0, 1, 2, U64Max}

\* instruction data no DepositInstruction encodes to: empty, an unknown
\* variant index, one byte short, one byte long
Undecodable ==
    {<<>>,
     DepositInstruction_serialize(ByteBase - 1, 1),
     SubSeq(DepositInstruction_serialize(TAG_WITHDRAW, 1), 1, U64_BYTES),
     DepositInstruction_serialize(TAG_DEPOSIT, 1) \o <<0>>}

NoInstruction ==
    [ix |-> <<>>, decoded |-> DepositInstruction_try_from_slice(<<>>),
     first |-> "A", signed |-> FALSE, dest |-> "none",
     ret |-> Return(Err("None"), [a \in Accounts |-> 0], <<>>)]

\* nothing on the wire, no pair of instructions run
NoCodec ==
    [sent |-> [ok |-> FALSE, tag |-> 0, amount |-> 0], bytes |-> <<>>,
     done |-> FALSE, decoded |-> [ok |-> FALSE, tag |-> 0, amount |-> 0]]
NoPair == [run |-> FALSE]

\* task3 and task2 not started
NoRelay == [run |-> FALSE]
NoBatch == [run |-> FALSE]

InitWith(buffers) ==
    \* small wallets, or one wallet holding all of the u64 range the others
    \* leave
    /\ lamports \in {[A |-> 3, B |-> 1, R |-> r] : r \in {0, 2, 5}}
                        \cup {[A |-> U64Max - 6, B |-> 1, R |-> 5]}
    /\ lamports["A"] + lamports["B"] + lamports["R"] <= U64Max
    /\ data \in buffers
    \* the program moves balance and lamports together: a record never
    \* holds a balance above its lamports
    /\ DepositAccount_try_from_slice(data).balance <= lamports[Record]
    /\ progOwned \in BOOLEAN
    /\ min_balance \in {0, 2}
    /\ last = NoInstruction
    /\ ledger = [start |-> lamports[Record],
                 start_balance |-> DepositAccount_try_from_slice(data).balance,
                 deposited |-> 0, withdrawn |-> 0]
    /\ steps = 0
    /\ codec = NoCodec
    /\ pair = NoPair
    /\ relay = NoRelay
    /\ batch = NoBatch

\* a record the program has never written
Init == InitWith(FreshBuffers)

\* any record the host can hand in
InitHost == InitWith(FreshBuffers \cup HostImages)

\* mutant: the writes of a rejected instruction are kept
Submit_keeps_writes(first, signed, dest, bytes) ==
    /\ steps < MaxSteps
    /\ \E r \in {process(lamports, data, progOwned, checks, min_balance,
                          first, signed, dest, bytes) : checks \in BOOLEAN},
          ix \in {DepositInstruction_try_from_slice(bytes)} :
       /\ last' = [ix |-> bytes, decoded |-> ix, first |-> first,
                   signed |-> signed, dest |-> dest, ret |-> r]
       /\ lamports' = r.lamports
       /\ data' = r.data
       /\ ledger' = ledger
    /\ steps' = steps + 1
    /\ UNCHANGED <<progOwned, min_balance, codec, pair, relay, batch>>

\* checks: whether the build traps integer overflow (debug profile, or
\* overflow-checks on) or wraps (release profile)
Submit(first, signed, dest, bytes) ==
    /\ steps < MaxSteps
    /\ \E r \in {process(lamports, data, progOwned, checks, min_balance,
                          first, signed, dest, bytes) : checks \in BOOLEAN},
          ix \in {DepositInstruction_try_from_slice(bytes)} :
       /\ last' = [ix |-> bytes, decoded |-> ix, first |-> first,
                   signed |-> signed, dest |-> dest, ret |-> r]
       \* the host keeps the writes of an instruction that returned Ok and
       \* discards those of one that returned an error
       /\ lamports' = IF r.err = Ok THEN r.lamports ELSE lamports
       /\ data' = IF r.err = Ok THEN r.data ELSE data
       /\ ledger' = IF r.err # Ok THEN ledger
                    ELSE IF ix.tag = TAG_DEPOSIT
                        THEN [ledger EXCEPT !.deposited = @ + ix.amount]
                    ELSE [ledger EXCEPT !.withdrawn = @ + ix.amount]
    /\ steps' = steps + 1
    /\ UNCHANGED <<progOwned, min_balance, codec, pair, relay, batch>>

Deposit(first, signed, amount) ==
    Submit(first, signed, "none", DepositInstruction_serialize(TAG_DEPOSIT, amount))

Withdraw(first, signed, dest, amount) ==
    Submit(first, signed, dest, DepositInstruction_serialize(TAG_WITHDRAW, amount))

Malformed(first, signed, dest, bytes) ==
    Submit(first, signed, dest, bytes)

Next ==
    \/ \E f \in Wallets, s \in BOOLEAN, a \in Amounts :
            Deposit(f, s, a)
    \/ \E f \in Wallets, s \in BOOLEAN,
          d \in Accounts \cup {"none"}, a \in Amounts :
            Withdraw(f, s, d, a)
    \/ \E f \in Wallets, s \in BOOLEAN, b \in Undecodable :
            Malformed(f, s, "none", b)

Spec == Init /\ [][Next]_vars

SpecHost == InitHost /\ [][Next]_vars

----------------------------------------------------------------------------
(* The instruction codec on its own: a client encodes an instruction, or    *)
(* any bytes arrive, and process decodes them                               *)

\* amounts a client sends: small ones, one digit set in each byte, large ones
CodecAmounts ==
    (0 .. MaxCodecAmount)
        \cup {Pow(ByteBase, k) : k \in 0 .. (U64_BYTES - 1)}
        \cup ((U64Max - MaxCodecAmount) .. U64Max)

\* bytes that can arrive: every prefix of an encoding, with a known or an
\* unknown variant index, and an encoding with a byte appended
WireBytes ==
    {SubSeq(DepositInstruction_serialize(t, a), 1, n) :
        t \in {TAG_DEPOSIT, TAG_WITHDRAW, ByteBase - 1},
        a \in {0, 1, U64Max},
        n \in 0 .. (1 + U64_BYTES)}
    \cup {DepositInstruction_serialize(t, 1) \o <<0>> : t \in {TAG_DEPOSIT, TAG_WITHDRAW}}

InitCodec ==
    /\ lamports = [A |-> 3, B |-> 1, R |-> 0]
    /\ data = <<>>
    /\ progOwned = TRUE
    /\ min_balance = 0
    /\ last = NoInstruction
    /\ ledger = [start |-> 0, start_balance |-> 0, deposited |-> 0, withdrawn |-> 0]
    /\ steps = 0
    /\ codec = NoCodec
    /\ pair = NoPair
    /\ relay = NoRelay
    /\ batch = NoBatch

\* the client serializes a DepositInstruction
Encode(tag, amount) ==
    /\ codec' = [NoCodec EXCEPT
                    !.sent = [ok |-> TRUE, tag |-> tag, amount |-> amount],
                    !.bytes = DepositInstruction_serialize(tag, amount)]
    /\ UNCHANGED <<lamports, data, progOwned, min_balance, last, ledger, steps, pair,
                   relay, batch>>

\* instruction data that no client of this program encoded
Arrive(bytes) ==
    /\ codec' = [NoCodec EXCEPT !.bytes = bytes]
    /\ UNCHANGED <<lamports, data, progOwned, min_balance, last, ledger, steps, pair,
                   relay, batch>>

\* DepositInstruction::try_from_slice(instruction_data) in process
Decode ==
    /\ ~codec.done
    /\ codec' = [codec EXCEPT !.done = TRUE,
                              !.decoded = DepositInstruction_try_from_slice(codec.bytes)]
    /\ UNCHANGED <<lamports, data, progOwned, min_balance, last, ledger, steps, pair,
                   relay, batch>>

NextCodec ==
    \/ \E t \in {TAG_DEPOSIT, TAG_WITHDRAW}, a \in CodecAmounts : Encode(t, a)
    \/ \E b \in WireBytes : Arrive(b)
    \/ Decode

SpecCodec == InitCodec /\ [][NextCodec]_vars

----------------------------------------------------------------------------
(* Two instructions on disjoint accounts: the host holds two records of the *)
(* program, R with wallet A and S with wallet B, and runs one instruction   *)
(* on each, in either order                                                 *)

PairRecords == {Record, "S"}

\* the position an account takes in the account list of an instruction on
\* the other record
Twin(a) == IF a = Record THEN "S" ELSE IF a = "S" THEN Record ELSE a

\* the accounts as an instruction on the other record sees them
Mirror(lam) == [a \in DOMAIN lam |-> lam[Twin(a)]]

\* the instructions a wallet can send for its record: Deposits, and
\* Withdraws to itself or to the record
PairInstructions(first, record) ==
    {[record |-> record, first |-> first, signed |-> s, dest |-> "none",
      bytes |-> DepositInstruction_serialize(TAG_DEPOSIT, a)] :
        s \in BOOLEAN, a \in Amounts}
    \cup
    {[record |-> record, first |-> first, signed |-> s, dest |-> d,
      bytes |-> DepositInstruction_serialize(TAG_WITHDRAW, a)] :
        s \in BOOLEAN, d \in {first, record}, a \in Amounts}

\* the host runs one instruction on the accounts w and keeps its writes when
\* it returned Ok
Execute(w, ix, checks, minbal) ==
    LET here == ix.record = Record
        r == process(IF here THEN w.lam ELSE Mirror(w.lam),
                     w.dat[ix.record], w.owned[ix.record], checks, minbal,
                     ix.first, ix.signed,
                     IF here THEN ix.dest ELSE Twin(ix.dest), ix.bytes)
    IN  IF r.err # Ok THEN [err |-> r.err, lam |-> w.lam, dat |-> w.dat, owned |-> w.owned]
        ELSE [err |-> Ok,
              lam |-> IF here THEN r.lamports ELSE Mirror(r.lamports),
              dat |-> [w.dat EXCEPT ![ix.record] = r.data],
              owned |-> w.owned]

\* the results of ix1 and ix2 and the accounts after both, ix1 run first
InOrder(w, ix1, ix2, checks, minbal) ==
    LET a == Execute(w, ix1, checks, minbal)
        b == Execute(a, ix2, checks, minbal)
    IN  [err1 |-> a.err, err2 |-> b.err, lam |-> b.lam, dat |-> b.dat]

\* the same, ix2 run first
InReverse(w, ix1, ix2, checks, minbal) ==
    LET a == Execute(w, ix2, checks, minbal)
        b == Execute(a, ix1, checks, minbal)
    IN  [err1 |-> b.err, err2 |-> a.err, lam |-> b.lam, dat |-> b.dat]

InitPair ==
    /\ lamports = [A |-> 3, B |-> 1, R |-> 0]
    /\ data = <<>>
    /\ progOwned = TRUE
    /\ min_balance \in {0, 2}
    /\ last = NoInstruction
    /\ ledger = [start |-> 0, start_balance |-> 0, deposited |-> 0, withdrawn |-> 0]
    /\ steps = 0
    /\ codec = NoCodec
    /\ relay = NoRelay
    /\ batch = NoBatch
    /\ \E a \in {1, 3}, r \in {2, 5}, o \in BOOLEAN,
          dr \in {<<>>, Zeros(RECORD_BYTES),
                  DepositAccount_serialize([owner |-> Key("A"), balance |-> 3])},
          ds \in {<<>>, Zeros(RECORD_BYTES),
                  DepositAccount_serialize([owner |-> Key("B"), balance |-> 3])} :
          pair = [run |-> FALSE,
                  lam |-> [A |-> a, B |-> 3, R |-> r, S |-> 5],
                  dat |-> [R |-> dr, S |-> ds],
                  owned |-> [R |-> TRUE, S |-> o]]

\* the host is handed ix1 on record R and ix2 on record S
RunPair(ix1, ix2) ==
    /\ ~pair.run
    /\ \E checks \in BOOLEAN :
          pair' = [run |-> TRUE, lam |-> pair.lam, dat |-> pair.dat,
                   owned |-> pair.owned, ix1 |-> ix1, ix2 |-> ix2,
                   r12 |-> InOrder(pair, ix1, ix2, checks, min_balance),
                   r21 |-> InReverse(pair, ix1, ix2, checks, min_balance)]
    /\ UNCHANGED <<lamports, data, progOwned, min_balance, last, ledger, steps, codec,
                   relay, batch>>

NextPair ==
    \E ix1 \in PairInstructions("A", Record), ix2 \in PairInstructions("B", "S") :
        RunPair(ix1, ix2)

SpecPair == InitPair /\ [][NextPair]_vars

----------------------------------------------------------------------------
(* task3: a spawned task subscribes to block updates and puts every block's *)
(* slot on a bounded channel; the main loop takes the slots off the channel *)
(* and spawns one task per slot that sends the transfer                     *)

Slots == {1, 2}

\* mutant: the newest slot on the channel is handed out first
mpsc_recv_newest(chan) ==
    [slot |-> chan[Len(chan)], rest |-> SubSeq(chan, 1, Len(chan) - 1)]

\* rx.recv() on a channel that holds a value: the oldest one
mpsc_recv(chan) == [slot |-> Head(chan), rest |-> Tail(chan)]

InitRelay ==
    /\ lamports = [A |-> 3, B |-> 1, R |-> 0]
    /\ data = <<>>
    /\ progOwned = TRUE
    /\ min_balance = 0
    /\ last = NoInstruction
    /\ ledger = [start |-> 0, start_balance |-> 0, deposited |-> 0, withdrawn |-> 0]
    /\ steps = 0
    /\ codec = NoCodec
    /\ pair = NoPair
    /\ batch = NoBatch
    /\ relay = [run |-> TRUE,
                sub |-> "connecting",  \* position of subscribe_to_blocks
                error |-> FALSE,        \* it returned Err
                pending |-> 0,          \* the slot tx.send is waiting to put
                updates |-> 0,          \* stream messages read so far
                chan |-> <<>>,          \* the channel's buffer
                sent |-> <<>>,          \* every slot put on the channel
                main |-> "recv",        \* position of the main loop
                received |-> <<>>,      \* every slot rx.recv returned
                tasks |-> <<>>]         \* the transfer tasks, in spawn order

RelayUnchanged ==
    UNCHANGED <<lamports, data, progOwned, min_balance, last, ledger, steps, codec,
                pair, batch>>

\* connect and subscribe succeeded
Connect ==
    /\ relay.sub = "connecting"
    /\ relay' = [relay EXCEPT !.sub = "streaming"]
    /\ RelayUnchanged

\* connect or subscribe failed: subscribe_to_blocks returns Err, tx is dropped
ConnectFail ==
    /\ relay.sub = "connecting"
    /\ relay' = [relay EXCEPT !.sub = "ended", !.error = TRUE]
    /\ RelayUnchanged

\* stream.message() yields a block update
StreamBlock(slot) ==
    /\ relay.sub = "streaming"
    /\ relay.updates < MaxUpdates
    /\ relay' = [relay EXCEPT !.sub = "sending", !.pending = slot,
                              !.updates = @ + 1]
    /\ RelayUnchanged

\* stream.message() yields an update that is not a block
StreamOther ==
    /\ relay.sub = "streaming"
    /\ relay.updates < MaxUpdates
    /\ relay' = [relay EXCEPT !.updates = @ + 1]
    /\ RelayUnchanged

\* tx.send(block.slot).await.ok(): waits for room; an error (receiver gone)
\* is dropped
TxSend ==
    /\ relay.sub = "sending"
    /\ IF relay.main = "done"
       THEN relay' = [relay EXCEPT !.sub = "streaming", !.pending = 0]
       ELSE /\ Len(relay.chan) < ChannelCapacity
            /\ relay' = [relay EXCEPT !.sub = "streaming", !.pending = 0,
                                      !.chan = Append(@, relay.pending),
                                      !.sent = Append(@, relay.pending)]
    /\ RelayUnchanged

\* the stream ends (None): subscribe_to_blocks returns Ok, tx is dropped
StreamEnd ==
    /\ relay.sub = "streaming"
    /\ relay' = [relay EXCEPT !.sub = "ended"]
    /\ RelayUnchanged

\* stream.message() fails: subscribe_to_blocks returns Err, tx is dropped
StreamErr ==
    /\ relay.sub = "streaming"
    /\ relay' = [relay EXCEPT !.sub = "ended", !.error = TRUE]
    /\ RelayUnchanged

\* one turn of the main loop: rx.recv() returns a slot, the transfer task is
\* spawned, the loop goes to sleep
Recv ==
    /\ relay.main = "recv"
    /\ relay.chan # <<>>
    /\ \E r \in {mpsc_recv(relay.chan)} :
          relay' = [relay EXCEPT !.main = "sleep",
                                 !.chan = r.rest,
                                 !.received = Append(@, r.slot),
                                 !.tasks = Append(@, [slot |-> r.slot,
                                                      state |-> "spawned"])]
    /\ RelayUnchanged

\* the 100 ms sleep is over
Wake ==
    /\ relay.main = "sleep"
    /\ relay' = [relay EXCEPT !.main = "recv"]
    /\ RelayUnchanged

\* rx.recv() returns None: the channel is empty and tx was dropped
RecvNone ==
    /\ relay.main = "recv"
    /\ relay.chan = <<>>
    /\ relay.sub = "ended"
    /\ relay' = [relay EXCEPT !.main = "join"]
    /\ RelayUnchanged

\* grpc_task.await returns and main returns: the runtime is dropped, and
\* with it every task that has not started
Join ==
    /\ relay.main = "join"
    /\ relay.sub = "ended"
    /\ relay' = [relay EXCEPT
                    !.main = "done",
                    !.tasks = [i \in DOMAIN @ |->
                                 IF @[i].state = "spawned"
                                 THEN [@[i] EXCEPT !.state = "dropped"]
                                 ELSE @[i]]]
    /\ RelayUnchanged

\* a transfer task runs: send_transaction returns Ok or Err, which is printed
Attempt(i, ok) ==
    /\ relay.main # "done"
    /\ i \in DOMAIN relay.tasks
    /\ relay.tasks[i].state = "spawned"
    /\ relay' = [relay EXCEPT !.tasks[i].state = IF ok THEN "sent" ELSE "failed"]
    /\ RelayUnchanged

\* the steps of the main loop
MainStep == Recv \/ Wake \/ RecvNone \/ Join

NextRelay ==
    \/ Connect
    \/ ConnectFail
    \/ \E slot \in Slots : StreamBlock(slot)
    \/ StreamOther
    \/ TxSend
    \/ StreamEnd
    \/ StreamErr
    \/ Recv
    \/ Wake
    \/ RecvNone
    \/ Join
    \/ \E i \in 1 .. MaxUpdates, ok \in BOOLEAN : Attempt(i, ok)

SpecRelay == InitRelay /\ [][NextRelay]_vars

\* the main task is polled whenever it can make a step
SpecRelayLive == SpecRelay /\ WF_vars(MainStep)

----------------------------------------------------------------------------
(* task2: main builds one future per pair of a source wallet whose secret   *)
(* key loads and a destination whose address parses, runs them all with     *)
(* join_all, and reports the results                                        *)

\* what a config can hold as a secret key or as an address: a string that
\* decodes, or one that does not
Strings == {"valid", "garbled"}

\* bs58::decode and Keypair::from_bytes both succeed
load_keypair_from_secret(secret_key) == [ok |-> secret_key = "valid"]

\* Pubkey::from_str
Pubkey_from_str(dest_addr) == [ok |-> dest_addr = "valid"]

\* the TransactionResult a future returns; a source or destination is named
\* by its place in the config
TransactionResult(source, destination, sent) ==
    [source |-> source, destination |-> destination,
     signature |-> IF sent THEN "signature" ELSE "Failed"]

\* the sequences over S of length at most n
SeqsUpTo(S, n) == UNION {[1 .. k -> S] : k \in 0 .. n}

\* the number of elements of a sequence that are in S
RECURSIVE CountIn(_, _)
CountIn(seq, S) ==
    IF seq = <<>> THEN 0
    ELSE (IF Head(seq) \in S THEN 1 ELSE 0) + CountIn(Tail(seq), S)

InitBatch ==
    /\ lamports = [A |-> 3, B |-> 1, R |-> 0]
    /\ data = <<>>
    /\ progOwned = TRUE
    /\ min_balance = 0
    /\ last = NoInstruction
    /\ ledger = [start |-> 0, start_balance |-> 0, deposited |-> 0, withdrawn |-> 0]
    /\ steps = 0
    /\ codec = NoCodec
    /\ pair = NoPair
    /\ relay = NoRelay
    /\ \E src \in SeqsUpTo(Strings, MaxSources),
          dst \in SeqsUpTo(Strings, MaxDestinations) :
          batch = [run |-> TRUE,
                   source_wallets |-> src,      \* their secret keys
                   destination_wallets |-> dst, \* their addresses
                   pc |-> "sources",
                   i |-> 1,                     \* the source the loop is at
                   j |-> 1,                     \* the destination it is at
                   futures |-> <<>>,
                   results |-> <<>>,
                   success_count |-> 0,
                   failed_count |-> 0]

BatchUnchanged ==
    UNCHANGED <<lamports, data, progOwned, min_balance, last, ledger, steps, codec,
                pair, relay>>

\* mutant: a secret key that does not load ends the building of the batch
VisitSource_abort ==
    /\ batch.pc = "sources"
    /\ IF batch.i > Len(batch.source_wallets)
       THEN batch' = [batch EXCEPT !.pc = "join"]
       ELSE IF ~load_keypair_from_secret(batch.source_wallets[batch.i]).ok
           THEN batch' = [batch EXCEPT !.pc = "join"]
       ELSE batch' = [batch EXCEPT !.pc = "destinations", !.j = 1]
    /\ BatchUnchanged

\* the outer loop: the next source's key is loaded; one that does not load
\* is reported and passed over
VisitSource ==
    /\ batch.pc = "sources"
    /\ IF batch.i > Len(batch.source_wallets)
       THEN batch' = [batch EXCEPT !.pc = "join"]
       ELSE IF ~load_keypair_from_secret(batch.source_wallets[batch.i]).ok
           THEN batch' = [batch EXCEPT !.i = @ + 1]
       ELSE batch' = [batch EXCEPT !.pc = "destinations", !.j = 1]
    /\ BatchUnchanged

\* the inner loop: the next destination's address is parsed; one that does
\* not parse is reported and passed over, for the others a future is pushed
VisitDestination ==
    /\ batch.pc = "destinations"
    /\ IF batch.j > Len(batch.destination_wallets)
       THEN batch' = [batch EXCEPT !.pc = "sources", !.i = @ + 1]
       ELSE IF ~Pubkey_from_str(batch.destination_wallets[batch.j]).ok
           THEN batch' = [batch EXCEPT !.j = @ + 1]
       ELSE batch' = [batch EXCEPT
                        !.j = @ + 1,
                        !.futures = Append(@, [source |-> batch.i,
                                               destination |-> batch.j,
                                               done |-> FALSE,
                                               attempts |-> 0,
                                               sent |-> FALSE])]
    /\ BatchUnchanged

\* join_all polls a future: send_transaction returns Ok or Err, and the
\* future its TransactionResult
Send(k, ok) ==
    /\ batch.pc = "join"
    /\ k \in DOMAIN batch.futures
    /\ ~batch.futures[k].done
    /\ batch' = [batch EXCEPT !.futures[k].done = TRUE,
                              !.futures[k].attempts = @ + 1,
                              !.futures[k].sent = ok]
    /\ BatchUnchanged

\* join_all returns the results in the order of the futures
JoinAll ==
    /\ batch.pc = "join"
    /\ \A k \in DOMAIN batch.futures : batch.futures[k].done
    /\ batch' = [batch EXCEPT
                    !.pc = "report",
                    !.results = [k \in DOMAIN batch.futures |->
                                   TransactionResult(batch.futures[k].source,
                                                     batch.futures[k].destination,
                                                     batch.futures[k].sent)]]
    /\ BatchUnchanged

\* the summary: success_count counts the results whose signature is not
\* "Failed", the failed count is results.len() - success_count
Report ==
    /\ batch.pc = "report"
    /\ \E n \in {CountIn(batch.results,
                          {r \in Range(batch.results) : r.signature # "Failed"})} :
          batch' = [batch EXCEPT !.pc = "done",
                                 !.success_count = n,
                                 !.failed_count = Len(batch.results) - n]
    /\ BatchUnchanged

NextBatch ==
    \/ VisitSource
    \/ VisitDestination
    \/ \E k \in 1 .. (MaxSources * MaxDestinations), ok \in BOOLEAN : Send(k, ok)
    \/ JoinAll
    \/ Report

SpecBatch == InitBatch /\ [][NextBatch]_vars

----------------------------------------------------------------------------
(* Views used by the properties *)

\* the record as the program reads it
stored == DepositAccount_try_from_slice(data)
IsInitialized == stored.ok

\* the last instruction as decoded
lastIx == last.decoded
LastIsDeposit == lastIx.ok /\ lastIx.tag = TAG_DEPOSIT
LastIsWithdraw == lastIx.ok /\ lastIx.tag = TAG_WITHDRAW

\* the last instruction passed the namespace and signer checks with a full
\* account list
LastWellFormed == progOwned /\ last.signed /\ last.dest # "none"

\* the accounts the last instruction names
LastNamed == {last.first, Record} \cup ({last.dest} \ {"none"})

\* the lamports a set of accounts holds
RECURSIVE SumOver(_, _)
SumOver(lam, S) ==
    IF S = {} THEN 0
    ELSE LET a == CHOOSE x \in S : TRUE IN lam[a] + SumOver(lam, S \ {a})

\* the last instruction returned an error and left the accounts as they were
LastRejectedUntouched(err) ==
    /\ last.ret.err = err
    /\ last.ret.lamports = lamports
    /\ last.ret.data = data

----------------------------------------------------------------------------
(* C1 *)

----------------------------------------------------------------------------
(* C2 *)

\* C2: a signed Deposit by a funder who holds the amount, into a
\* program-owned record whose buffer is empty, succeeds and leaves the record
\* Initialized with owner = funder and balance = amount, the amount moved
\* from the funder to the record.
C2_FirstDepositInitializes ==
    [][(/\ LastIsDeposit'
        /\ Len(data) = 0
        /\ progOwned
        /\ last'.signed
        /\ lamports[last'.first] >= lastIx'.amount)
       => (/\ last'.ret.err = Ok
           /\ IsInitialized'
           /\ stored'.owner = Key(last'.first)
           /\ stored'.balance = lastIx'.amount
           /\ lamports'[Record] = lamports[Record] + lastIx'.amount
           /\ lamports'[last'.first] = lamports[last'.first] - lastIx'.amount)]_vars

----------------------------------------------------------------------------
(* C3 *)

\* C3: a successful Deposit into an Initialized record, whoever signs it,
\* adds exactly amount to the balance and to the record's lamports, takes
\* exactly amount from the funder, and leaves the owner (and the other
\* wallet) alone.
C3_DepositExact ==
    [][(LastIsDeposit' /\ last'.ret.err = Ok /\ IsInitialized)
       => (/\ IsInitialized'
           /\ stored'.balance = stored.balance + lastIx'.amount
           /\ stored'.owner = stored.owner
           /\ lamports'[Record] = lamports[Record] + lastIx'.amount
           /\ lamports'[last'.first] = lamports[last'.first] - lastIx'.amount
           /\ \A w \in Wallets \ {last'.first} : lamports'[w] = lamports[w])]_vars

\* a credited Deposit whose funder is not the recorded owner
C3_Witness ==
    /\ LastIsDeposit
    /\ last.ret.err = Ok
    /\ lastIx.amount > 0
    /\ IsInitialized
    /\ stored.owner # Key(last.first)
    /\ stored.owner # ZeroKey
    /\ stored.balance > lastIx.amount

----------------------------------------------------------------------------
(* C4 *)

\* C4: a successful Withdraw by the recorded owner takes exactly amount off
\* the balance and off the record's lamports, credits exactly amount to the
\* destination, and leaves the owner alone, whichever account is named as
\* destination.
C4_WithdrawExact ==
    [][(LastIsWithdraw' /\ last'.ret.err = Ok)
       => (/\ IsInitialized'
           /\ stored'.balance = stored.balance - lastIx'.amount
           /\ stored'.owner = stored.owner
           /\ lamports'[Record] = lamports[Record] - lastIx'.amount
           /\ lamports'[last'.dest] = lamports[last'.dest] + lastIx'.amount)]_vars

----------------------------------------------------------------------------
(* C5 *)

\* C5: a signed Withdraw on an Initialized record by a caller other than the
\* recorded owner fails with the unauthorized error (InvalidAccountData in
\* the code) for every amount and leaves record and lamports as they were;
\* and no Withdraw succeeds unless its caller is the recorded owner.
C5_NonOwnerRejected ==
    [][/\ (/\ LastIsWithdraw'
           /\ LastWellFormed'
           /\ IsInitialized
           /\ stored.owner # Key(last'.first))
          => (/\ LastRejectedUntouched(InvalidAccountData)'
              /\ lamports' = lamports
              /\ data' = data)
       /\ (LastIsWithdraw' /\ last'.ret.err = Ok)
          => stored.owner = Key(last'.first)]_vars

\* a non-owner asks for an amount the record could pay
C5_Witness ==
    /\ LastIsWithdraw
    /\ last.ret.err = InvalidAccountData
    /\ stored.owner \in {Key("A"), Key("B")}
    /\ lastIx.amount > 0
    /\ stored.balance >= lastIx.amount
    /\ lamports[Record] >= min_balance + lastIx.amount

----------------------------------------------------------------------------
(* C6 *)

\* C6: a Withdraw by the recorded owner of more than the balance fails with
\* InsufficientFunds and leaves balance and lamports as they were.
C6_OverdrawRejected ==
    [][(/\ LastIsWithdraw'
        /\ LastWellFormed'
        /\ IsInitialized
        /\ stored.owner = Key(last'.first)
        /\ lastIx'.amount > stored.balance)
       => (/\ LastRejectedUntouched(InsufficientFunds)'
           /\ lamports' = lamports
           /\ data' = data)]_vars

\* the owner overdraws a record whose lamports above the reserve would cover
\* the amount
C6_Witness ==
    /\ LastIsWithdraw
    /\ LastWellFormed
    /\ last.ret.err = InsufficientFunds
    /\ stored.owner = Key(last.first)
    /\ lastIx.amount > stored.balance
    /\ lamports[Record] >= min_balance + lastIx.amount

----------------------------------------------------------------------------
(* C7 *)

----------------------------------------------------------------------------
(* C8 *)

\* C8: a Deposit into an Initialized record whose balance + amount exceeds
\* the u64 range is rejected with ArithmeticOverflow, and balance and
\* lamports are as they were.
C8_OverflowRejected ==
    [][(/\ LastIsDeposit'
        /\ progOwned
        /\ last'.signed
        /\ lastIx'.amount > 0
        /\ IsInitialized
        /\ stored.balance + lastIx'.amount > U64Max)
       => (/\ LastRejectedUntouched(ArithmeticOverflow)'
           /\ lamports' = lamports
           /\ data' = data)]_vars

----------------------------------------------------------------------------
(* C9 *)

\* C9: an instruction that returns an error has, at the point where it
\* returns, changed no lamports and no byte of the record.
C9_ErrorBeforeMutation ==
    (last.ret.err # Ok /\ steps > 0)
        => (last.ret.lamports = lamports /\ last.ret.data = data)

----------------------------------------------------------------------------
(* C10 *)

\* C10: an Initialized record stays Initialized and keeps its owner across
\* every instruction.
C10_OwnerFixed ==
    [][IsInitialized => (IsInitialized' /\ stored'.owner = stored.owner)]_vars

\* a wallet's record after an instruction by the other wallet was applied
C10_Witness ==
    /\ IsInitialized
    /\ last.ret.err = Ok
    /\ lastIx.amount > 0
    /\ stored.owner \in {Key("A"), Key("B")}
    /\ stored.owner # Key(last.first)

----------------------------------------------------------------------------
(* C11 *)

----------------------------------------------------------------------------
(* C12 *)

\* C12: an encoded Deposit or Withdraw is nine bytes, the variant index (0 or
\* 1) and the amount least significant byte first, and decodes to the
\* instruction that was encoded.
C12_RoundTrip ==
    codec.sent.ok
        => (/\ Len(codec.bytes) = 1 + U64_BYTES
            /\ codec.bytes[1] = codec.sent.tag
            /\ codec.bytes[2] = codec.sent.amount % ByteBase
            /\ codec.bytes[1 + U64_BYTES]
                   = codec.sent.amount \div Pow(ByteBase, U64_BYTES - 1)
            /\ codec.done => codec.decoded = codec.sent)

\* a Withdraw whose amount has different low and high bytes came back
C12_Witness ==
    /\ codec.sent.ok
    /\ codec.done
    /\ codec.decoded.ok
    /\ codec.decoded.tag = TAG_WITHDRAW
    /\ codec.decoded.amount = ByteBase

----------------------------------------------------------------------------
(* C13 *)

\* C13: instruction data shorter than nine bytes, or whose first byte is
\* neither 0 nor 1, does not decode; process returns the decode error
\* (InvalidInstructionData in the code) and has written to no account.
C13_UndecodableRejected ==
    (steps > 0
     /\ (\/ Len(last.ix) < 1 + U64_BYTES
         \/ last.ix[1] \notin {TAG_DEPOSIT, TAG_WITHDRAW}))
        => (/\ ~lastIx.ok
            /\ LastRejectedUntouched(InvalidInstructionData))

\* a Withdraw one byte short, signed, on a program-owned record
C13_Witness ==
    /\ steps > 0
    /\ Len(last.ix) = U64_BYTES
    /\ last.ix[1] = TAG_WITHDRAW
    /\ progOwned
    /\ last.signed
    /\ last.ret.err = InvalidInstructionData

----------------------------------------------------------------------------
(* C14 *)

\* C14: a Deposit or Withdraw on a program-owned record whose first account
\* (funder, caller) did not sign returns MissingRequiredSignature and has
\* written to no account; and no instruction succeeds unsigned.
C14_SignatureRequired ==
    /\ (/\ steps > 0
        /\ progOwned
        /\ ~last.signed
        /\ (LastIsDeposit \/ (LastIsWithdraw /\ last.dest # "none")))
       => LastRejectedUntouched(MissingRequiredSignature)
    /\ (steps > 0 /\ last.ret.err = Ok) => last.signed

\* the recorded owner asks, unsigned, for an amount the record could pay
C14_Witness ==
    /\ LastIsWithdraw
    /\ ~last.signed
    /\ last.ret.err = MissingRequiredSignature
    /\ stored.owner = Key(last.first)
    /\ lastIx.amount > 0
    /\ stored.balance >= lastIx.amount
    /\ lamports[Record] >= min_balance + lastIx.amount

----------------------------------------------------------------------------
(* C15 *)

\* C15 (as claimed): the error of an instruction is that of the first check
\* it fails in the order namespace (IncorrectProgramId), decode
\* (InvalidInstructionData), signer (MissingRequiredSignature), for Withdraw
\* caller-is-owner (InvalidAccountData), then the balance checks.
C15_CheckOrder ==
    [][IF ~progOwned THEN last'.ret.err = IncorrectProgramId
       ELSE IF ~lastIx'.ok THEN last'.ret.err = InvalidInstructionData
       ELSE IF ~last'.signed THEN last'.ret.err = MissingRequiredSignature
       ELSE IF lastIx'.tag = TAG_WITHDRAW /\ IsInitialized
                /\ stored.owner # Key(last'.first)
           THEN last'.ret.err = InvalidAccountData
       ELSE TRUE]_vars

\* C15 (amended): the error of an instruction is that of the first check it
\* fails in the order decode (InvalidInstructionData), for Withdraw the
\* account list (NotEnoughAccountKeys), namespace (IncorrectProgramId),
\* signer (MissingRequiredSignature), and for Withdraw the record's length
\* (BorshIoError), caller-is-owner (InvalidAccountData), then balance and
\* reserve (InsufficientFunds).
C15_CheckOrderDecodeFirst ==
    [][IF ~lastIx'.ok THEN last'.ret.err = InvalidInstructionData
       ELSE IF lastIx'.tag = TAG_WITHDRAW /\ last'.dest = "none"
           THEN last'.ret.err = NotEnoughAccountKeys
       ELSE IF ~progOwned THEN last'.ret.err = IncorrectProgramId
       ELSE IF ~last'.signed THEN last'.ret.err = MissingRequiredSignature
       ELSE IF lastIx'.tag # TAG_WITHDRAW THEN TRUE
       ELSE IF ~IsInitialized THEN last'.ret.err = BorshIoError
       ELSE IF stored.owner # Key(last'.first)
           THEN last'.ret.err = InvalidAccountData
       ELSE IF \/ lastIx'.amount > stored.balance
               \/ lamports[Record] - min_balance < lastIx'.amount
           THEN last'.ret.err = InsufficientFunds
       ELSE TRUE]_vars

\* an unsigned Withdraw by a non-owner, for more than the balance
C15_Witness ==
    /\ LastIsWithdraw
    /\ progOwned
    /\ last.dest # "none"
    /\ ~last.signed
    /\ IsInitialized
    /\ stored.owner # Key(last.first)
    /\ lastIx.amount > stored.balance
    /\ last.ret.err = MissingRequiredSignature

----------------------------------------------------------------------------
(* C16 *)

\* C16: a record is classified by the length of its buffer alone: a
\* zero-length buffer is no error for a Deposit (it does not return
\* BorshIoError, the code's CorruptState), a buffer of another length than
\* the record width makes a Deposit or Withdraw fail with BorshIoError, a
\* Withdraw on a zero-length buffer fails with BorshIoError, and a failing
\* instruction changes nothing.
C16_LengthClassifies ==
    [][(/\ lastIx'.ok
        /\ progOwned
        /\ last'.signed
        /\ LastIsWithdraw' => last'.dest # "none"
        /\ lamports[last'.first] >= lastIx'.amount)
       => (/\ (LastIsDeposit' /\ Len(data) = 0) => last'.ret.err # BorshIoError
           /\ Len(data) \notin {0, RECORD_BYTES} => last'.ret.err = BorshIoError
           /\ (LastIsWithdraw' /\ Len(data) = 0) => last'.ret.err = BorshIoError
           /\ last'.ret.err # Ok => (lamports' = lamports /\ data' = data))]_vars

----------------------------------------------------------------------------
(* C17 *)

\* C17: an instruction with amount 0 that passes the namespace, decode,
\* signer and (for Withdraw) owner checks returns Ok and leaves the record's
\* bytes and every account's lamports as they were, on an empty record and
\* on a record below its reserve as well.
C17_ZeroAmountNoOp ==
    [][(/\ lastIx'.ok
        /\ lastIx'.amount = 0
        /\ progOwned
        /\ last'.signed
        /\ LastIsWithdraw' => last'.dest # "none"
        /\ Len(data) \in {0, RECORD_BYTES}
        /\ LastIsWithdraw' => (IsInitialized /\ stored.owner = Key(last'.first)))
       => (/\ last'.ret.err = Ok
           /\ data' = data
           /\ lamports' = lamports)]_vars

----------------------------------------------------------------------------
(* C18 *)

\* C18: two instructions that name disjoint accounts get the same results
\* and leave every account the same, whichever of them the host runs first.
C18_DisjointCommute ==
    pair.run => pair.r12 = pair.r21

\* a Deposit into one record and a Withdraw from the other both went through
C18_Witness ==
    /\ pair.run
    /\ pair.r12.err1 = Ok
    /\ pair.r12.err2 = Ok
    /\ DepositInstruction_try_from_slice(pair.ix1.bytes).tag = TAG_DEPOSIT
    /\ DepositInstruction_try_from_slice(pair.ix1.bytes).amount > 0
    /\ DepositInstruction_try_from_slice(pair.ix2.bytes).tag = TAG_WITHDRAW
    /\ DepositInstruction_try_from_slice(pair.ix2.bytes).amount > 0
    /\ pair.ix2.dest = "B"

----------------------------------------------------------------------------
(* C19 *)

\* C19: the accounts an instruction names (funder or caller, record,
\* destination) hold the same lamports in total before it, at its return, and
\* after the host has kept or discarded its writes.
C19_ValueConserved ==
    [][/\ SumOver(last'.ret.lamports, LastNamed') = SumOver(lamports, LastNamed')
       /\ SumOver(lamports', LastNamed') = SumOver(lamports, LastNamed')]_vars

\* a Withdraw was paid to a wallet within a few lamports of the u64 maximum
C19_Witness ==
    /\ LastIsWithdraw
    /\ last.ret.err = Ok
    /\ lastIx.amount > 0
    /\ last.dest # Record
    /\ lamports[last.dest] > U64Max - 6

----------------------------------------------------------------------------
(* C20 *)

\* C20: the balance of an Initialized record is what it held at the start
\* plus the amounts of the successful Deposits minus the amounts of the
\* successful Withdraws, and the Withdraws never add up to more than the
\* start and the Deposits together.
C20_LedgerAccounting ==
    IsInitialized
        => (/\ stored.balance
                  = ledger.start_balance + ledger.deposited - ledger.withdrawn
            /\ ledger.withdrawn <= ledger.start_balance + ledger.deposited)

\* a record that was paid into and paid out of
C20_Witness ==
    /\ IsInitialized
    /\ ledger.deposited > 0
    /\ ledger.withdrawn > 0

----------------------------------------------------------------------------
(* C21 *)

\* what holds of the block channel in every state: the slots put on it are
\* the slots received followed by the slots still on it, one transfer task
\* was spawned for each received slot, in the order received, and the main
\* loop has left only after the subscription ended and the channel was empty
RelayInOrder ==
    /\ relay.sent = relay.received \o relay.chan
    /\ Len(relay.chan) <= ChannelCapacity
    /\ Len(relay.tasks) = Len(relay.received)
    /\ \A i \in DOMAIN relay.tasks : relay.tasks[i].slot = relay.received[i]
    /\ relay.main \in {"join", "done"}
          => (relay.sub = "ended" /\ relay.chan = <<>>)

\* C21: every slot put on the channel is received once, in the order sent,
\* and spawns one transfer task; a failed transfer does not end the loop;
\* every slot put on the channel is received in the end, and once the
\* subscription has ended and the channel is empty the main loop ends.
C21_BlocksRelayed ==
    /\ []RelayInOrder
    /\ \A n \in 1 .. MaxUpdates :
          (Len(relay.sent) >= n) ~> (Len(relay.received) >= n)
    /\ (relay.sub = "ended" /\ relay.chan = <<>>)
          ~> (relay.main \in {"join", "done"})

\* after a stream error main has returned; the first of its transfers had
\* failed, a later one for another slot was sent
C21_Witness ==
    /\ relay.run
    /\ relay.main = "done"
    /\ relay.error
    /\ Len(relay.received) >= 2
    /\ relay.received[1] # relay.received[2]
    /\ relay.tasks[1].state = "failed"
    /\ relay.tasks[2].state = "sent"

----------------------------------------------------------------------------
(* C22 *)

\* the source at place i loads and the destination at place j parses
BatchPair(i, j) ==
    /\ i \in DOMAIN batch.source_wallets
    /\ j \in DOMAIN batch.destination_wallets
    /\ load_keypair_from_secret(batch.source_wallets[i]).ok
    /\ Pubkey_from_str(batch.destination_wallets[j]).ok

\* the entries of a sequence of futures or results for the pair (i, j)
EntriesFor(seq, i, j) ==
    {k \in DOMAIN seq : seq[k].source = i /\ seq[k].destination = j}

\* C22: once the batch is built there is one future for each pair of a
\* source that loads and a destination that parses and none for any other
\* pair; a future makes one transfer attempt; the results hold one entry per
\* future, "Failed" exactly when its send failed; and the reported
\* successful and failed counts are the numbers of such entries and add up
\* to the number of results.
C22_BatchFanOut ==
    /\ \A k \in DOMAIN batch.futures :
          /\ batch.futures[k].attempts <= 1
          /\ batch.futures[k].done <=> batch.futures[k].attempts = 1
    /\ batch.pc \in {"join", "report", "done"}
          => \A i \in 1 .. MaxSources, j \in 1 .. MaxDestinations :
                Cardinality(EntriesFor(batch.futures, i, j))
                    = IF BatchPair(i, j) THEN 1 ELSE 0
    /\ batch.pc \in {"report", "done"}
          => /\ \A k \in DOMAIN batch.futures : batch.futures[k].attempts = 1
             /\ Len(batch.results) = Len(batch.futures)
             /\ \A i \in 1 .. MaxSources, j \in 1 .. MaxDestinations :
                   Cardinality(EntriesFor(batch.results, i, j))
                       = IF BatchPair(i, j) THEN 1 ELSE 0
             /\ \A k \in DOMAIN batch.results :
                   /\ batch.results[k].source = batch.futures[k].source
                   /\ batch.results[k].destination = batch.futures[k].destination
                   /\ batch.results[k].signature = "Failed"
                         <=> ~batch.futures[k].sent
    /\ batch.pc = "done"
          => /\ batch.success_count + batch.failed_count = Len(batch.results)
             /\ batch.failed_count
                   = Cardinality({k \in DOMAIN batch.results :
                                     batch.results[k].signature = "Failed"})

\* a batch whose first source did not load: the second source sent to both
\* destinations, one send failed and the other went through
C22_Witness ==
    /\ batch.run
    /\ batch.pc = "done"
    /\ batch.source_wallets = <<"garbled", "valid">>
    /\ batch.destination_wallets = <<"valid", "valid">>
    /\ batch.success_count = 1
    /\ batch.failed_count = 1
    /\ batch.results[1].signature = "Failed"

====
